---------------------------- MODULE Spec2Model ----------------------------
(***************************************************************************)
(* Capture / inference orchestration of the local transcription app.       *)
(*                                                                         *)
(* Two execution contexts exchange messages:                               *)
(*   - the worker (src/src/worker.js, and its pipeline-based variant in    *)
(*     src/unnamed/part_001 lines 1-165): load(), generate(), the          *)
(*     `processing` gate and the model singleton;                          *)
(*   - the control context (src/src/App.jsx): the React component with     *)
(*     its state, the MediaRecorder handlers, the worker message handler   *)
(*     and the effects.                                                    *)
(* Every action is one run-to-completion step of the JavaScript event      *)
(* loop: a handler from its start to its first await that really waits.    *)
(***************************************************************************)
EXTENDS Integers, Sequences, FiniteSets, TLC

(***************************************************************************)
(* Bounds of the model (not program constants).                            *)
(***************************************************************************)
MaxQueue == 2
MaxEvents == 2
MaxCalls == 3
MaxUpdates == 2
MaxLoads == 2
MaxSessions == 2
MaxFragments == 2
MaxReaders == 2
MaxRecorderEvents == 3
MaxTimers == 1
MaxProgressItems == 2

(***************************************************************************)
(* Values.                                                                 *)
(***************************************************************************)
WorkerJs == "src/worker.js"
Part001 == "unnamed/part_001"
WorkerFiles == {WorkerJs, Part001}

Undefined == "undefined"
Null == "null"

\* Strings are sequences of characters, so that replace() and trim() compute.
BLANK_AUDIO == <<"[", "B", "L", "A", "N", "K", "_", "A", "U", "D", "I", "O", "]">>
Hello == <<"h", "e", "l", "l", "o">>
World == <<"w", "o", "r", "l", "d">>
Sp == <<" ">>
Empty == <<>>

\* Texts the engine may decode (the inference engine is external).
EngineTexts == { Empty,
                 Hello,
                 World,
                 Sp \o Sp \o BLANK_AUDIO \o Sp \o Hello \o Sp \o World \o Sp \o Sp,
                 BLANK_AUDIO }
\* Text of a streamed chunk.
PartialTexts == { Hello }
\* Tokens-per-second values computed from performance.now() (as printed).
TpsNumbers == {"12.5", "25.0"}

\* A Float32Array of samples: `len` samples starting `off` samples into the
\* decode of the blob made of the fragments `frags`.
NoAudio == [frags |-> <<>>, off |-> 0, len |-> 0]

VARIABLES
    workerFile,   \* which worker script the Worker runs
    processing,   \* worker: `let processing`
    calls,        \* worker: the pending invocations of load() and generate()
    tokenizer,    \* worker.js: AutomaticSpeechRecognitionPipeline.tokenizer
    processor,    \* worker.js: AutomaticSpeechRecognitionPipeline.processor
    model,        \* worker.js: AutomaticSpeechRecognitionPipeline.model
    transcriber,  \* part_001: AutomaticSpeechRecognitionPipelineInstance.transcriber
    loadCalls,    \* number of from_pretrained / pipeline calls made, per component
    toWorker,     \* messages posted to the worker, not yet delivered
    toMain,       \* messages posted by the worker, not yet delivered
    status,                     \* App: useState(null)
    realtimeText,               \* App: useState("")
    finalTranscript,            \* App: useState("")
    tps,                        \* App: useState(null)
    debouncedTps,               \* App: useState(null)
    recording,                  \* App: useState(false)
    isProcessing,               \* App: useState(false)
    chunks,                     \* App: useState([])
    fullRecordingRef,           \* App: useRef([])
    allowRealtimeProcessing,    \* App: useState(true)
    processingFinalTranscript,  \* App: useState(false)
    recorderState,  \* MediaRecorder.state of recorderRef.current
    recorderEvents, \* events the MediaRecorder has queued for its handlers
    requestTimers,  \* pending setTimeout callbacks that call requestData()
    tpsTimer,       \* the pending timer of the debounce effect
    readers,        \* FileReader reads (and decodes) under way
    session,        \* number of recordings started so far
    progressItems,  \* App: useState([])
    history         \* what has happened since the last start of a recording

workerVars == <<workerFile, processing, calls, tokenizer, processor, model,
                transcriber, loadCalls>>
chanVars == <<toWorker, toMain>>
appVars == <<status, realtimeText, finalTranscript, tps, debouncedTps, recording,
             isProcessing, chunks, fullRecordingRef, allowRealtimeProcessing,
             processingFinalTranscript, recorderState, recorderEvents,
             requestTimers, tpsTimer, readers, session, progressItems>>
vars == <<workerVars, chanVars, appVars, history>>

(***************************************************************************)
(* Helpers.                                                                *)
(***************************************************************************)
RemoveAt(s, i) == SubSeq(s, 1, i - 1) \o SubSeq(s, i + 1, Len(s))

ReplaceAt(s, i, x) == [s EXCEPT ![i] = x]

(***************************************************************************)
(* Messages.                                                               *)
(***************************************************************************)
\* worker.current.postMessage({ type: "load" })
LoadMsg == [type |-> "load", audio |-> NoAudio, isFinal |-> FALSE]

\* worker.current.postMessage({ type: "generate", data: { audio, language, isFinal } })
GenerateMsg(audio, isFinal) == [type |-> "generate", audio |-> audio, isFinal |-> isFinal]

\* self.postMessage({ status, ... })
Event(kind, output, isFinal, t) ==
    [status |-> kind, output |-> output, isFinal |-> isFinal, tps |-> t]

StartEvent == Event("start", Empty, FALSE, Undefined)
UpdateEvent(output, t) == Event("update", output, FALSE, t)
CompleteEvent(output, isFinal) == Event("complete", output, isFinal, Undefined)
LoadingEvent == Event("loading", Empty, FALSE, Undefined)
ReadyEvent == Event("ready", Empty, FALSE, Undefined)
ErrorEvent == Event("error", Empty, FALSE, Undefined)

\* The files of the model and the percentages a download reports.
Files == {"config.json", "model.onnx"}
Percentages == {50, 100}
\* x of `self.postMessage(x)`: what the library passes to progress_callback.
ProgressEvent(kind, file, progress) ==
    [status |-> kind, file |-> file, progress |-> progress]
ProgressEvents ==
    {ProgressEvent("initiate", f, Undefined) : f \in Files}
    \cup {ProgressEvent("progress", f, n) : f \in Files, n \in Percentages}
    \cup {ProgressEvent("done", f, Undefined) : f \in Files}

(***************************************************************************)
(* Worker: the model singleton.                                            *)
(***************************************************************************)
\* `x ??= from_pretrained(...)`: a null handle becomes the pending promise.
NullishAssign(x) == IF x = Null THEN "pending" ELSE x

\* The synchronous part of getInstance(): the handles after it.
getInstance ==
    IF workerFile = WorkerJs
    THEN /\ tokenizer' = NullishAssign(tokenizer)
         /\ processor' = NullishAssign(processor)
         /\ model' = NullishAssign(model)
         /\ loadCalls' = [loadCalls EXCEPT
                !.tokenizer = @ + (IF tokenizer = Null THEN 1 ELSE 0),
                !.processor = @ + (IF processor = Null THEN 1 ELSE 0),
                !.model = @ + (IF model = Null THEN 1 ELSE 0)]
         /\ UNCHANGED transcriber
    ELSE /\ loadCalls' = [loadCalls EXCEPT
                !.pipeline = @ + (IF transcriber = Null THEN 1 ELSE 0)]
         /\ UNCHANGED <<tokenizer, processor, model, transcriber>>

\* What the caller's `await getInstance()` meets: the value, a rejection, or
\* a promise that is still pending.
Awaited ==
    IF workerFile = WorkerJs
    THEN LET hs == {NullishAssign(tokenizer), NullishAssign(processor),
                    NullishAssign(model)}
         IN  IF "failed" \in hs THEN "rejected"
             ELSE IF hs = {"loaded"} THEN "resolved"
             ELSE "pending"
    ELSE IF transcriber = Null THEN "pending" ELSE "resolved"

\* Room for the calls getInstance() would start.
LoadsInBound ==
    IF workerFile = WorkerJs THEN TRUE
    ELSE transcriber = Null => loadCalls.pipeline < MaxLoads

(***************************************************************************)
(* Worker: generate().                                                     *)
(***************************************************************************)
Call(kind, audio, isFinal, pc) ==
    [kind |-> kind, audio |-> audio, isFinal |-> isFinal, pc |-> pc,
     numTokens |-> 0, tps |-> Undefined]

\* Faulty variant: the gate is taken without telling the main thread.
Admit_NoStart(c, rest) ==
    /\ LoadsInBound
    /\ Len(toMain) < MaxEvents
    /\ processing' = TRUE
    /\ toMain' = toMain
    /\ getInstance
    /\ calls' = CASE Awaited = "resolved" -> Append(rest, [c EXCEPT !.pc = "run"])
                  [] Awaited = "pending" -> Append(rest, [c EXCEPT !.pc = "instance"])
                  [] OTHER -> rest

\* Lines 59-68 of generate(): the gate is taken, `start` is posted and the
\* pipeline is awaited. `rest` is the list of the other pending calls.
Admit(c, rest) ==
    /\ LoadsInBound
    /\ Len(toMain) < MaxEvents
    /\ processing' = TRUE
    /\ toMain' = Append(toMain, StartEvent)
    /\ getInstance
    /\ calls' = CASE Awaited = "resolved" -> Append(rest, [c EXCEPT !.pc = "run"])
                  [] Awaited = "pending" -> Append(rest, [c EXCEPT !.pc = "instance"])
                  [] OTHER -> rest   \* the await throws: generate() ends here

\* Faulty variant: a Final request that finds the gate busy does not wait.
generate_FinalDoesNotWait(m) ==
    LET c == Call("generate", m.audio, m.isFinal, "poll") IN
    IF processing /\ ~m.isFinal
    THEN /\ history' = history \cup {"dropped"}
         /\ UNCHANGED <<workerVars, toMain>>
    ELSE /\ Len(calls) < MaxCalls
         /\ Admit(c, calls)
         /\ history' = IF processing THEN history \cup {"waited"} ELSE history
         /\ UNCHANGED workerFile

\* Faulty variant: a rejected Realtime request is answered with an empty `complete`.
generate_DropAnswers(m) ==
    LET c == Call("generate", m.audio, m.isFinal, "poll") IN
    IF processing /\ ~m.isFinal
    THEN /\ Len(toMain) < MaxEvents
         /\ toMain' = Append(toMain, CompleteEvent(Empty, FALSE))
         /\ history' = history \cup {"dropped"}
         /\ UNCHANGED <<workerFile, processing, calls, tokenizer, processor,
                        model, transcriber, loadCalls>>
    ELSE IF processing /\ m.isFinal
    THEN /\ Len(calls) < MaxCalls
         /\ calls' = Append(calls, c)
         /\ history' = history \cup {"waited"}
         /\ UNCHANGED <<workerFile, processing, tokenizer, processor, model,
                        transcriber, loadCalls, toMain>>
    ELSE /\ Len(calls) < MaxCalls
         /\ Admit(c, calls)
         /\ UNCHANGED <<workerFile, history>>

\* generate(data) called by the message listener.
generate(m) ==
    LET c == Call("generate", m.audio, m.isFinal, "poll") IN
    IF processing /\ ~m.isFinal
    THEN \* "Already processing, ignoring non-final request"
         /\ history' = history \cup {"dropped"}
         /\ UNCHANGED <<workerFile, processing, calls, tokenizer, processor,
                        model, transcriber, loadCalls, toMain>>
    ELSE IF processing /\ m.isFinal
    THEN \* while (processing) await new Promise(r => setTimeout(r, 50))
         /\ Len(calls) < MaxCalls
         /\ calls' = Append(calls, c)
         /\ history' = history \cup {"waited"}
         /\ UNCHANGED <<workerFile, processing, tokenizer, processor, model,
                        transcriber, loadCalls, toMain>>
    ELSE /\ Len(calls) < MaxCalls
         /\ Admit(c, calls)
         /\ UNCHANGED <<workerFile, history>>

\* Faulty variant: `if (processing) await sleep(50)` instead of the while loop.
Poll_NoRecheck(i) ==
    /\ calls[i].kind = "generate"
    /\ calls[i].pc = "poll"
    /\ Admit(calls[i], RemoveAt(calls, i))
    /\ UNCHANGED <<workerFile, toWorker, history>>

\* A 50 ms timer of the wait loop fires and finds the gate clear.
Poll(i) ==
    /\ calls[i].kind = "generate"
    /\ calls[i].pc = "poll"
    /\ ~processing
    /\ Admit(calls[i], RemoveAt(calls, i))
    /\ UNCHANGED <<workerFile, toWorker, history>>

\* The streamer's callback_function posts a chunk of text.
Streams(c) == workerFile = WorkerJs \/ ~c.isFinal

NextTps(c) ==
    IF workerFile = WorkerJs
    THEN (IF c.tps = Undefined THEN {Undefined} ELSE {}) \cup TpsNumbers
    ELSE IF c.numTokens = 0 THEN {Undefined} ELSE TpsNumbers

Update(i) ==
    /\ calls[i].kind = "generate"
    /\ calls[i].pc = "run"
    /\ Streams(calls[i])
    /\ calls[i].numTokens < MaxUpdates
    /\ Len(toMain) < MaxEvents
    /\ \E out \in PartialTexts, t \in NextTps(calls[i]) :
         /\ toMain' = Append(toMain, UpdateEvent(out, t))
         /\ calls' = ReplaceAt(calls, i,
                [calls[i] EXCEPT !.numTokens = @ + 1, !.tps = t])
    /\ UNCHANGED <<workerFile, processing, tokenizer, processor, model,
                   transcriber, loadCalls, toWorker>>

\* Faulty variant: `complete` is posted without the request's finality.
Complete_DropsFinality(i, texts) ==
    /\ calls[i].kind = "generate"
    /\ calls[i].pc = "run"
    /\ Len(toMain) < MaxEvents
    /\ \E text \in texts :
         toMain' = Append(toMain, CompleteEvent(text, FALSE))
    /\ processing' = FALSE
    /\ calls' = RemoveAt(calls, i)
    /\ UNCHANGED <<workerFile, tokenizer, processor, model, transcriber,
                   loadCalls, toWorker>>

\* The engine call resolves: `complete` is posted and the gate is cleared.
Complete(i, texts) ==
    /\ calls[i].kind = "generate"
    /\ calls[i].pc = "run"
    /\ Len(toMain) < MaxEvents
    /\ \E text \in texts :
         toMain' = Append(toMain, CompleteEvent(text, calls[i].isFinal))
    /\ processing' = FALSE
    /\ calls' = RemoveAt(calls, i)
    /\ UNCHANGED <<workerFile, tokenizer, processor, model, transcriber,
                   loadCalls, toWorker>>

\* What generate() does when processor(audio) / model.generate / transcriber
\* throws: worker.js has no handler, part_001 catches.
OnGenerateError(i) ==
    IF workerFile = WorkerJs
    THEN UNCHANGED <<processing, toMain>>
    ELSE /\ Len(toMain) < MaxEvents
         /\ toMain' = Append(toMain, CompleteEvent(Empty, calls[i].isFinal))
         /\ processing' = FALSE

Throw(i) ==
    /\ calls[i].kind = "generate"
    /\ calls[i].pc = "run"
    /\ OnGenerateError(i)
    /\ calls' = RemoveAt(calls, i)
    /\ UNCHANGED <<workerFile, tokenizer, processor, model, transcriber,
                   loadCalls, toWorker>>

(***************************************************************************)
(* Worker: load().                                                         *)
(***************************************************************************)
load ==
    LET c == Call("load", NoAudio, FALSE, "instance") IN
    /\ LoadsInBound
    /\ Len(calls) < MaxCalls
    /\ getInstance
    /\ CASE Awaited = "resolved" ->
              /\ Len(toMain) + 2 <= MaxEvents
              /\ toMain' = toMain \o <<LoadingEvent, LoadingEvent>>
              /\ calls' = Append(calls, [c EXCEPT !.pc = "warmup"])
         [] Awaited = "pending" ->
              /\ Len(toMain) < MaxEvents
              /\ toMain' = Append(toMain, LoadingEvent)
              /\ calls' = Append(calls, c)
         [] OTHER ->
              /\ Len(toMain) + 2 <= MaxEvents
              /\ toMain' = toMain \o <<LoadingEvent, ErrorEvent>>
              /\ UNCHANGED calls
    /\ UNCHANGED <<workerFile, processing, history>>

\* The continuation of `await getInstance()` in a call that had to wait.
Resume(i, outcome) ==
    LET c == calls[i] IN
    IF c.kind = "generate"
    THEN /\ calls' = IF outcome = "resolved"
                     THEN ReplaceAt(calls, i, [c EXCEPT !.pc = "run"])
                     ELSE RemoveAt(calls, i)
         /\ UNCHANGED toMain
    ELSE /\ Len(toMain) < MaxEvents
         /\ IF outcome = "resolved"
            THEN /\ toMain' = Append(toMain, LoadingEvent)
                 /\ calls' = ReplaceAt(calls, i, [c EXCEPT !.pc = "warmup"])
            ELSE /\ toMain' = Append(toMain, ErrorEvent)
                 /\ calls' = RemoveAt(calls, i)

\* worker.js: Promise.all([tokenizer, processor, model]) settles.
InstanceSettled(i) ==
    /\ workerFile = WorkerJs
    /\ calls[i].pc = "instance"
    /\ Awaited # "pending"
    /\ Resume(i, Awaited)
    /\ UNCHANGED <<workerFile, processing, tokenizer, processor, model,
                   transcriber, loadCalls, toWorker>>

\* worker.js: one of the from_pretrained promises settles.
FromPretrainedSettled(ok) ==
    /\ workerFile = WorkerJs
    /\ \/ tokenizer = "pending" /\ tokenizer' = (IF ok THEN "loaded" ELSE "failed")
                                /\ UNCHANGED <<processor, model>>
       \/ processor = "pending" /\ processor' = (IF ok THEN "loaded" ELSE "failed")
                                /\ UNCHANGED <<tokenizer, model>>
       \/ model = "pending" /\ model' = (IF ok THEN "loaded" ELSE "failed")
                            /\ UNCHANGED <<tokenizer, processor>>
    /\ UNCHANGED <<workerFile, processing, calls, transcriber, loadCalls, chanVars>>

\* part_001: the call's own `await pipeline(...)` settles.
PipelineSettled(i, ok) ==
    /\ workerFile = Part001
    /\ calls[i].pc = "instance"
    /\ transcriber' = IF ok THEN "loaded" ELSE transcriber
    /\ Resume(i, IF ok THEN "resolved" ELSE "rejected")
    /\ UNCHANGED <<workerFile, processing, tokenizer, processor, model,
                   loadCalls, toWorker>>

\* The warm-up run of load() ends: `ready`, or `error` from the catch.
Warmup(i, ok) ==
    /\ calls[i].kind = "load"
    /\ calls[i].pc = "warmup"
    /\ Len(toMain) < MaxEvents
    /\ toMain' = Append(toMain, IF ok THEN ReadyEvent ELSE ErrorEvent)
    /\ calls' = RemoveAt(calls, i)
    /\ UNCHANGED <<workerFile, processing, tokenizer, processor, model,
                   transcriber, loadCalls, toWorker>>

\* The load of a component is under way with load()'s progress_callback:
\* worker.js keeps the promises of the caller that started them, part_001
\* starts a pipeline() for every load() that finds no transcriber.
ReportsProgress ==
    LET waiting == {i \in 1..Len(calls) : calls[i].pc = "instance"} IN
    IF workerFile = WorkerJs
    THEN /\ "pending" \in {tokenizer, processor, model}
         /\ waiting # {}
         /\ calls[CHOOSE i \in waiting : \A j \in waiting : i <= j].kind = "load"
    ELSE \E i \in waiting : calls[i].kind = "load"

\* progress_callback: (x) => self.postMessage(x)
ProgressCallback ==
    /\ ReportsProgress
    /\ Len(toMain) < MaxEvents
    /\ \E x \in ProgressEvents :
         /\ x.status = "initiate" =>
              Len(progressItems)
                + Cardinality({i \in 1..Len(toMain) : toMain[i].status = "initiate"})
                < MaxProgressItems
         /\ toMain' = Append(toMain, x)
    /\ UNCHANGED <<workerVars, toWorker, appVars, history>>

(***************************************************************************)
(* Worker: the message listener.                                           *)
(***************************************************************************)
WorkerListener ==
    /\ toWorker # <<>>
    /\ toWorker' = Tail(toWorker)
    /\ LET m == Head(toWorker) IN
       IF m.type = "load" THEN load ELSE generate(m)

\* The steps of the worker; `texts` are the texts the engine may decode and
\* `oks` the outcomes (TRUE: resolves, FALSE: throws) of its calls.
Gate == (WorkerListener \/ \E i \in 1..Len(calls) : Poll(i)) /\ UNCHANGED appVars

Engine(texts) ==
    (\E i \in 1..Len(calls) : Complete(i, texts)) /\ UNCHANGED <<appVars, history>>

EngineThrows ==
    (\E i \in 1..Len(calls) : Throw(i)) /\ UNCHANGED <<appVars, history>>

Streamer ==
    (\E i \in 1..Len(calls) : Update(i)) /\ UNCHANGED <<appVars, history>>

Loader(oks) ==
    /\ UNCHANGED <<appVars, history>>
    /\ \/ \E i \in 1..Len(calls) : InstanceSettled(i)
       \/ \E ok \in oks : FromPretrainedSettled(ok)
       \/ \E i \in 1..Len(calls), ok \in oks : PipelineSettled(i, ok)
       \/ \E i \in 1..Len(calls), ok \in oks : Warmup(i, ok)

(***************************************************************************)
(* App: constants and pure helpers.                                        *)
(***************************************************************************)
WHISPER_SAMPLING_RATE == 16000
MAX_AUDIO_LENGTH == 30
MAX_SAMPLES == WHISPER_SAMPLING_RATE * MAX_AUDIO_LENGTH
DEBOUNCE_MS == 200
\* Granularity of the model's clock.
TickMs == DEBOUNCE_MS \div 2

Max(a, b) == IF a >= b THEN a ELSE b
Min(a, b) == IF a <= b THEN a ELSE b

\* Sizes (in decoded samples) of the blobs the MediaRecorder may deliver;
\* 0 is the empty blob.
FragmentSamples == {10 * WHISPER_SAMPLING_RATE, MAX_SAMPLES}

Fragment(s, n, size) == [session |-> s, seq |-> n, samples |-> size]

RECURSIVE Samples(_)
Samples(frags) ==
    IF frags = <<>> THEN 0 ELSE Head(frags).samples + Samples(Tail(frags))

\* decodeAudioData(arrayBuffer).getChannelData(0) of new Blob(frags)
getChannelData(frags) == [frags |-> frags, off |-> 0, len |-> Samples(frags)]

\* Faulty variant: the window is taken from the start of the decode.
slice_FromStart(audio, begin) ==
    LET n == IF begin < 0 THEN Min(0 - begin, audio.len) ELSE audio.len
    IN  [frags |-> audio.frags, off |-> audio.off, len |-> n]

\* TypedArray.prototype.slice(begin): a negative begin counts from the end.
slice(audio, begin) ==
    LET k == IF begin < 0 THEN Max(audio.len + begin, 0) ELSE Min(begin, audio.len)
    IN  [frags |-> audio.frags, off |-> audio.off + k, len |-> audio.len - k]

\* Lines 255-259: the audio of a Realtime request.
RealtimeAudio(frags) ==
    LET audio == getChannelData(frags)
    IN  IF audio.len > MAX_SAMPLES THEN slice(audio, 0 - MAX_SAMPLES) ELSE audio

\* String.prototype.replace(/\[BLANK_AUDIO\]/g, ''): one left-to-right pass.
StartsWithAt(s, i, pat) ==
    /\ i + Len(pat) - 1 <= Len(s)
    /\ SubSeq(s, i, i + Len(pat) - 1) = pat

RECURSIVE ReplaceFrom(_, _, _)
ReplaceFrom(s, i, pat) ==
    IF i > Len(s) THEN <<>>
    ELSE IF StartsWithAt(s, i, pat) THEN ReplaceFrom(s, i + Len(pat), pat)
    ELSE <<s[i]>> \o ReplaceFrom(s, i + 1, pat)

replace(s, pat) == ReplaceFrom(s, 1, pat)

\* String.prototype.trim()
WhiteSpace == {" ", "\t", "\n"}

RECURSIVE trimStart(_)
trimStart(s) ==
    IF s # <<>> /\ Head(s) \in WhiteSpace THEN trimStart(Tail(s)) ELSE s

RECURSIVE trimEnd(_)
trimEnd(s) ==
    IF s # <<>> /\ s[Len(s)] \in WhiteSpace
    THEN trimEnd(SubSeq(s, 1, Len(s) - 1)) ELSE s

trim(s) == trimEnd(trimStart(s))

\* e.data.output.replace(/\[BLANK_AUDIO\]/g, '').trim()
cleanedOutput(output) == trim(replace(output, BLANK_AUDIO))

\* Faulty variant: the new text replaces the transcript.
AppendTranscript_Replaces(prev, cleaned) == cleaned

\* Faulty variant: no separating space.
AppendTranscript_NoSeparator(prev, cleaned) == prev \o cleaned

\* setFinalTranscript(prev => prev + (prev ? " " : "") + cleanedOutput)
AppendTranscript(prev, cleaned) ==
    prev \o (IF prev # Empty THEN Sp ELSE Empty) \o cleaned

\* { ...item, ...data }
Spread(item, data) ==
    [k \in DOMAIN item \cup DOMAIN data |->
        IF k \in DOMAIN data THEN data[k] ELSE item[k]]

\* prev.map(f) and prev.filter(f) of the progress list
MapProgress(prev, data) ==
    [i \in 1..Len(prev) |->
        IF prev[i].file = data.file THEN Spread(prev[i], data) ELSE prev[i]]

\* Faulty variant: `done` removes nothing.
FilterProgress_KeepsAll(prev, data) == prev

RECURSIVE FilterProgress(_, _)
FilterProgress(prev, data) ==
    IF prev = <<>> THEN <<>>
    ELSE (IF Head(prev).file # data.file THEN <<Head(prev)>> ELSE <<>>)
         \o FilterProgress(Tail(prev), data)

NoTimer == [armed |-> FALSE, value |-> Null, left |-> 0]
Timer(v) == [armed |-> TRUE, value |-> v, left |-> DEBOUNCE_MS]

Reader(frags, isFinal) == [frags |-> frags, isFinal |-> isFinal]

(***************************************************************************)
(* App: the effects, run after the render that follows a handler.          *)
(***************************************************************************)
\* Faulty variant: the request is made whatever the recorder's state.
requestData_Always(ev) ==
    Append(ev, "dataavailable")

\* recorderRef.current.requestData(): the recorder queues a dataavailable
\* event; on an inactive recorder the call throws and queues nothing.
requestData(ev) ==
    IF recorderState = "recording" THEN Append(ev, "dataavailable") ELSE ev

\* Lines 238-270. `ev` and `rd` are recorderEvents and readers as the handler
\* left them; the effect runs when one of its dependencies changed.
RealtimeEffect(ev, rd) ==
    LET changed == <<status, recording, isProcessing, chunks,
                     allowRealtimeProcessing>>' #
                   <<status, recording, isProcessing, chunks,
                     allowRealtimeProcessing>>
        run == /\ changed
               /\ recording'
               /\ allowRealtimeProcessing'
               /\ ~isProcessing'
               /\ status' = "ready"
    IN  /\ readers' = IF run /\ chunks' # <<>>
                      THEN Append(rd, Reader(chunks', FALSE)) ELSE rd
        /\ recorderEvents' = IF run /\ chunks' = <<>> THEN requestData(ev) ELSE ev
        /\ Len(readers') <= MaxReaders
        /\ Len(recorderEvents') <= MaxRecorderEvents

\* Faulty variant: the effect has no cleanup, a pending timer keeps running.
DebounceEffect_NoCleanup ==
    tpsTimer' = IF tps' # tps /\ ~tpsTimer.armed THEN Timer(tps') ELSE tpsTimer

\* Lines 273-279: a change of tps clears the pending timer and sets a new one.
DebounceEffect ==
    tpsTimer' = IF tps' # tps THEN Timer(tps') ELSE tpsTimer

(***************************************************************************)
(* App: the worker's messages.                                             *)
(***************************************************************************)
onMessageReceived ==
    /\ toMain # <<>>
    /\ toMain' = Tail(toMain)
    /\ LET e == Head(toMain) IN
       CASE e.status = "loading" ->
              /\ status' = "loading"
              /\ UNCHANGED <<realtimeText, finalTranscript, tps, debouncedTps,
                             recording, isProcessing, chunks, fullRecordingRef,
                             allowRealtimeProcessing, processingFinalTranscript,
                             recorderState, requestTimers, tpsTimer, session,
                             progressItems>>
              /\ RealtimeEffect(recorderEvents, readers)
         [] e.status = "initiate" ->
              /\ progressItems' = Append(progressItems, e)
              /\ UNCHANGED <<status, realtimeText, finalTranscript, tps,
                             debouncedTps, recording, isProcessing, chunks,
                             fullRecordingRef, allowRealtimeProcessing,
                             processingFinalTranscript, recorderState,
                             recorderEvents, requestTimers, tpsTimer, readers,
                             session>>
         [] e.status = "progress" ->
              /\ progressItems' = MapProgress(progressItems, e)
              /\ UNCHANGED <<status, realtimeText, finalTranscript, tps,
                             debouncedTps, recording, isProcessing, chunks,
                             fullRecordingRef, allowRealtimeProcessing,
                             processingFinalTranscript, recorderState,
                             recorderEvents, requestTimers, tpsTimer, readers,
                             session>>
         [] e.status = "done" ->
              /\ progressItems' = FilterProgress(progressItems, e)
              /\ UNCHANGED <<status, realtimeText, finalTranscript, tps,
                             debouncedTps, recording, isProcessing, chunks,
                             fullRecordingRef, allowRealtimeProcessing,
                             processingFinalTranscript, recorderState,
                             recorderEvents, requestTimers, tpsTimer, readers,
                             session>>
         [] e.status = "ready" ->
              /\ status' = "ready"
              /\ UNCHANGED <<realtimeText, finalTranscript, tps, debouncedTps,
                             recording, isProcessing, chunks, fullRecordingRef,
                             allowRealtimeProcessing, processingFinalTranscript,
                             recorderState, requestTimers, tpsTimer, session,
                             progressItems>>
              /\ RealtimeEffect(recorderEvents, readers)
         [] e.status = "start" ->
              /\ isProcessing' = TRUE
              /\ UNCHANGED <<status, realtimeText, finalTranscript, tps,
                             debouncedTps, recording, chunks, fullRecordingRef,
                             allowRealtimeProcessing, processingFinalTranscript,
                             recorderState, requestTimers, tpsTimer, session,
                             progressItems>>
              /\ RealtimeEffect(requestData(recorderEvents), readers)
         [] e.status = "update" ->
              /\ tps' = e.tps
              /\ DebounceEffect
              /\ UNCHANGED <<status, realtimeText, finalTranscript, debouncedTps,
                             recording, isProcessing, chunks, fullRecordingRef,
                             allowRealtimeProcessing, processingFinalTranscript,
                             recorderState, recorderEvents, requestTimers,
                             readers, session, progressItems>>
         [] e.status = "complete" ->
              /\ isProcessing' = FALSE
              /\ IF e.isFinal
                 THEN /\ processingFinalTranscript' = FALSE
                      /\ finalTranscript' =
                           IF cleanedOutput(e.output) # Empty
                           THEN AppendTranscript(finalTranscript,
                                                 cleanedOutput(e.output))
                           ELSE finalTranscript
                      /\ realtimeText' = Empty
                 ELSE /\ realtimeText' = cleanedOutput(e.output)
                      /\ UNCHANGED <<processingFinalTranscript, finalTranscript>>
              /\ UNCHANGED <<status, tps, debouncedTps, recording, chunks,
                             fullRecordingRef, allowRealtimeProcessing,
                             recorderState, requestTimers, tpsTimer, session,
                             progressItems>>
              /\ RealtimeEffect(recorderEvents, readers)
         [] OTHER -> \* no case for "error"
              UNCHANGED appVars
    /\ history' = IF Head(toMain).status = "complete" /\ Head(toMain).isFinal
                  THEN history \cup {"committed"} ELSE history
    /\ UNCHANGED <<workerVars, toWorker>>

(***************************************************************************)
(* App: the MediaRecorder's handlers.                                      *)
(***************************************************************************)
\* Faulty variant: the full-session buffer is not emptied.
onstart_KeepsRecording(ev) ==
    /\ requestTimers < MaxTimers
    /\ recording' = TRUE
    /\ allowRealtimeProcessing' = TRUE
    /\ chunks' = <<>>
    /\ realtimeText' = Empty
    /\ requestTimers' = requestTimers + 1
    /\ UNCHANGED <<status, finalTranscript, tps, debouncedTps, isProcessing,
                   fullRecordingRef, processingFinalTranscript, recorderState,
                   tpsTimer, session, progressItems>>
    /\ RealtimeEffect(ev, readers)

onstart(ev) ==
    /\ requestTimers < MaxTimers
    /\ recording' = TRUE
    /\ allowRealtimeProcessing' = TRUE
    /\ chunks' = <<>>
    /\ fullRecordingRef' = <<>>
    /\ realtimeText' = Empty
    /\ requestTimers' = requestTimers + 1
    /\ UNCHANGED <<status, finalTranscript, tps, debouncedTps, isProcessing,
                   processingFinalTranscript, recorderState, tpsTimer, session,
                   progressItems>>
    /\ RealtimeEffect(ev, readers)

ondataavailable(ev, size) ==
    IF size > 0
    THEN /\ Len(fullRecordingRef) < MaxFragments
         /\ LET data == Fragment(session, Len(fullRecordingRef) + 1, size) IN
            /\ chunks' = Append(chunks, data)
            /\ fullRecordingRef' = Append(fullRecordingRef, data)
         /\ UNCHANGED <<status, realtimeText, finalTranscript, tps, debouncedTps,
                        recording, isProcessing, allowRealtimeProcessing,
                        processingFinalTranscript, recorderState, requestTimers,
                        tpsTimer, session, progressItems>>
         /\ RealtimeEffect(ev, readers)
    ELSE /\ requestTimers < MaxTimers
         /\ requestTimers' = requestTimers + 1
         /\ recorderEvents' = ev
         /\ UNCHANGED <<status, realtimeText, finalTranscript, tps, debouncedTps,
                        recording, isProcessing, chunks, fullRecordingRef,
                        allowRealtimeProcessing, processingFinalTranscript,
                        recorderState, tpsTimer, readers, session,
                        progressItems>>

\* Faulty variant: the final read is started whatever was captured.
onstop_NoLengthCheck(ev) ==
    /\ recording' = FALSE
    /\ allowRealtimeProcessing' = FALSE
    /\ realtimeText' = Empty
    /\ processingFinalTranscript' = TRUE
    /\ UNCHANGED <<status, finalTranscript, tps, debouncedTps, isProcessing,
                   chunks, fullRecordingRef, recorderState, requestTimers,
                   tpsTimer, session, progressItems>>
    /\ RealtimeEffect(ev, Append(readers, Reader(fullRecordingRef, TRUE)))

onstop(ev) ==
    /\ recording' = FALSE
    /\ allowRealtimeProcessing' = FALSE
    /\ realtimeText' = Empty
    /\ processingFinalTranscript' =
         IF Len(fullRecordingRef) > 0 THEN TRUE ELSE processingFinalTranscript
    /\ UNCHANGED <<status, finalTranscript, tps, debouncedTps, isProcessing,
                   chunks, fullRecordingRef, recorderState, requestTimers,
                   tpsTimer, session, progressItems>>
    /\ RealtimeEffect(ev, IF Len(fullRecordingRef) > 0
                          THEN Append(readers, Reader(fullRecordingRef, TRUE))
                          ELSE readers)

\* The MediaRecorder dispatches its next event.
RecorderEvent(sizes) ==
    /\ recorderEvents # <<>>
    /\ LET ev == Tail(recorderEvents) IN
       CASE Head(recorderEvents) = "start" -> onstart(ev)
         [] Head(recorderEvents) = "stop" -> onstop(ev)
         [] OTHER -> \E size \in sizes : ondataavailable(ev, size)
    /\ UNCHANGED <<history, workerVars, chanVars>>

\* A setTimeout callback of onstart (100 ms) or ondataavailable (25 ms).
RequestTimer ==
    /\ requestTimers > 0
    /\ requestTimers' = requestTimers - 1
    /\ recorderEvents' = requestData(recorderEvents)
    /\ Len(recorderEvents') <= MaxRecorderEvents
    /\ UNCHANGED <<history, workerVars, chanVars, status, realtimeText, finalTranscript,
                   tps, debouncedTps, recording, isProcessing, chunks,
                   fullRecordingRef, allowRealtimeProcessing,
                   processingFinalTranscript, recorderState, tpsTimer, readers,
                   session, progressItems>>

\* Faulty variant: the final read has no catch, the flag stays set.
onloadend_NoCatch(i, ok) ==
    LET r == readers[i] IN
    /\ readers' = RemoveAt(readers, i)
    /\ IF ok
       THEN /\ Len(toWorker) < MaxQueue
            /\ toWorker' = Append(toWorker,
                  IF r.isFinal
                  THEN GenerateMsg(getChannelData(r.frags), TRUE)
                  ELSE GenerateMsg(RealtimeAudio(r.frags), FALSE))
       ELSE UNCHANGED toWorker
    /\ UNCHANGED <<history, workerVars, toMain, status, realtimeText, finalTranscript,
                   tps, debouncedTps, recording, isProcessing, chunks,
                   fullRecordingRef, allowRealtimeProcessing,
                   processingFinalTranscript, recorderState, recorderEvents,
                   requestTimers, tpsTimer, session, progressItems>>

\* fileReader.onloadend of a read: the decode succeeds (ok) or throws.
onloadend(i, ok) ==
    LET r == readers[i] IN
    /\ readers' = RemoveAt(readers, i)
    /\ IF ok
       THEN /\ Len(toWorker) < MaxQueue
            /\ toWorker' = Append(toWorker,
                  IF r.isFinal
                  THEN GenerateMsg(getChannelData(r.frags), TRUE)
                  ELSE GenerateMsg(RealtimeAudio(r.frags), FALSE))
            /\ UNCHANGED processingFinalTranscript
       ELSE /\ processingFinalTranscript' =
                 IF r.isFinal THEN FALSE ELSE processingFinalTranscript
            /\ UNCHANGED toWorker
    /\ UNCHANGED <<history, workerVars, toMain, status, realtimeText, finalTranscript,
                   tps, debouncedTps, recording, isProcessing, chunks,
                   fullRecordingRef, allowRealtimeProcessing, recorderState,
                   recorderEvents, requestTimers, tpsTimer, session,
                   progressItems>>

(***************************************************************************)
(* App: the user's commands.                                               *)
(***************************************************************************)
\* Faulty variant: the button itself declares the model ready.
LoadModel_SetsReady ==
    /\ status = Null
    /\ Len(toWorker) < MaxQueue
    /\ toWorker' = Append(toWorker, LoadMsg)
    /\ status' = "ready"
    /\ UNCHANGED <<history, workerVars, toMain, realtimeText, finalTranscript, tps,
                   debouncedTps, recording, isProcessing, chunks,
                   fullRecordingRef, allowRealtimeProcessing,
                   processingFinalTranscript, recorderState, requestTimers,
                   tpsTimer, session, progressItems>>
    /\ RealtimeEffect(recorderEvents, readers)

\* The "Load Model" button, rendered while status === null.
LoadModel ==
    /\ status = Null
    /\ Len(toWorker) < MaxQueue
    /\ toWorker' = Append(toWorker, LoadMsg)
    /\ status' = "loading"
    /\ UNCHANGED <<history, workerVars, toMain, realtimeText, finalTranscript, tps,
                   debouncedTps, recording, isProcessing, chunks,
                   fullRecordingRef, allowRealtimeProcessing,
                   processingFinalTranscript, recorderState, requestTimers,
                   tpsTimer, session, progressItems>>
    /\ RealtimeEffect(recorderEvents, readers)

\* Faulty variant: the record button is never disabled.
toggleRecording_NoDisable(limit) ==
    /\ status = "ready"
    /\ IF recording
       THEN /\ recorderState = "recording"
            /\ recorderState' = "inactive"
            /\ recorderEvents' = recorderEvents \o <<"dataavailable", "stop">>
            /\ UNCHANGED <<session, history>>
       ELSE /\ recorderState = "inactive"
            /\ session < limit
            /\ recorderState' = "recording"
            /\ recorderEvents' = Append(recorderEvents, "start")
            /\ session' = session + 1
            /\ history' = {}
    /\ Len(recorderEvents') <= MaxRecorderEvents
    /\ UNCHANGED <<workerVars, chanVars, status, realtimeText, finalTranscript,
                   tps, debouncedTps, recording, isProcessing, chunks,
                   fullRecordingRef, allowRealtimeProcessing,
                   processingFinalTranscript, requestTimers, tpsTimer, readers,
                   progressItems>>

\* The record button, rendered while status === "ready" and disabled while
\* processingFinalTranscript.
toggleRecording(limit) ==
    /\ status = "ready"
    /\ ~processingFinalTranscript
    /\ IF recording
       THEN /\ recorderState = "recording"   \* stop() throws on an inactive recorder
            /\ recorderState' = "inactive"
            /\ recorderEvents' = recorderEvents \o <<"dataavailable", "stop">>
            /\ UNCHANGED <<session, history>>
       ELSE /\ recorderState = "inactive"    \* otherwise only a console.log
            /\ session < limit
            /\ recorderState' = "recording"
            /\ recorderEvents' = Append(recorderEvents, "start")
            /\ session' = session + 1
            /\ history' = {}
    /\ Len(recorderEvents') <= MaxRecorderEvents
    /\ UNCHANGED <<workerVars, chanVars, status, realtimeText, finalTranscript,
                   tps, debouncedTps, recording, isProcessing, chunks,
                   fullRecordingRef, allowRealtimeProcessing,
                   processingFinalTranscript, requestTimers, tpsTimer, readers,
                   progressItems>>

\* The "Clear" button, disabled while the transcript is empty.
clearTranscript ==
    /\ status = "ready"
    /\ finalTranscript # Empty
    /\ finalTranscript' = Empty
    /\ UNCHANGED <<history, workerVars, chanVars, status, realtimeText, tps, debouncedTps,
                   recording, isProcessing, chunks, fullRecordingRef,
                   allowRealtimeProcessing, processingFinalTranscript,
                   recorderState, recorderEvents, requestTimers, tpsTimer,
                   readers, session, progressItems>>

\* Texts the user may leave in the textarea.
EditTexts == { Empty, World }

\* The textarea's onChange, disabled while recording or finalizing.
onChange(value) ==
    /\ status = "ready"
    /\ ~(recording \/ processingFinalTranscript)
    /\ value # finalTranscript
    /\ finalTranscript' = value
    /\ UNCHANGED <<history, workerVars, chanVars, status, realtimeText, tps,
                   debouncedTps, recording, isProcessing, chunks,
                   fullRecordingRef, allowRealtimeProcessing,
                   processingFinalTranscript, recorderState, recorderEvents,
                   requestTimers, tpsTimer, readers, session, progressItems>>

(***************************************************************************)
(* App: the debounce timer of the tokens-per-second display.               *)
(***************************************************************************)
\* Time passes while the timer is pending.
Tick ==
    /\ tpsTimer.armed
    /\ tpsTimer.left > 0
    /\ tpsTimer' = [tpsTimer EXCEPT !.left = Max(0, @ - TickMs)]
    /\ UNCHANGED <<history, workerVars, chanVars, status, realtimeText, finalTranscript,
                   tps, debouncedTps, recording, isProcessing, chunks,
                   fullRecordingRef, allowRealtimeProcessing,
                   processingFinalTranscript, recorderState, recorderEvents,
                   requestTimers, readers, session, progressItems>>

\* setTimeout(() => setDebouncedTps(tps), 200) fires.
DebounceTimeout ==
    /\ tpsTimer.armed
    /\ tpsTimer.left = 0
    /\ debouncedTps' = tpsTimer.value
    /\ tpsTimer' = NoTimer
    /\ UNCHANGED <<history, workerVars, chanVars, status, realtimeText, finalTranscript,
                   tps, recording, isProcessing, chunks, fullRecordingRef,
                   allowRealtimeProcessing, processingFinalTranscript,
                   recorderState, recorderEvents, requestTimers, readers,
                   session, progressItems>>

\* The FileReader / decodeAudioData completions, with the outcomes `oks`.
Decoder(oks) == \E i \in 1..Len(readers), ok \in oks : onloadend(i, ok)

(***************************************************************************)
(* An arbitrary client of the worker, for the properties of the worker     *)
(* alone: it posts any message at any time and reads the events.           *)
(***************************************************************************)
ClientAudio == { [frags |-> <<>>, off |-> 0, len |-> 16000] }

ClientPost ==
    /\ Len(toWorker) < MaxQueue
    /\ \E m \in {LoadMsg} \cup
                {GenerateMsg(a, f) : a \in ClientAudio, f \in BOOLEAN} :
         toWorker' = Append(toWorker, m)
    /\ UNCHANGED <<history, workerVars, toMain, appVars>>

ClientReceive ==
    /\ toMain # <<>>
    /\ toMain' = Tail(toMain)
    /\ UNCHANGED <<history, workerVars, toWorker, appVars>>

(***************************************************************************)
(* Specifications.                                                         *)
(***************************************************************************)
Init ==
    /\ workerFile \in WorkerFiles
    /\ processing = FALSE
    /\ calls = <<>>
    /\ tokenizer = Null
    /\ processor = Null
    /\ model = Null
    /\ transcriber = Null
    /\ loadCalls = [tokenizer |-> 0, processor |-> 0, model |-> 0, pipeline |-> 0]
    /\ toWorker = <<>>
    /\ toMain = <<>>
    /\ status = Null
    /\ realtimeText = Empty
    /\ finalTranscript = Empty
    /\ tps = Null
    /\ debouncedTps = Null
    /\ recording = FALSE
    /\ isProcessing = FALSE
    /\ chunks = <<>>
    /\ fullRecordingRef = <<>>
    /\ allowRealtimeProcessing = TRUE
    /\ processingFinalTranscript = FALSE
    /\ recorderState = "inactive"
    /\ recorderEvents = <<>>
    /\ requestTimers = 0
    /\ tpsTimer = Timer(Null)
    /\ readers = <<>>
    /\ session = 0
    /\ progressItems = <<>>
    /\ history = {}

\* The orchestration: the whole system but the tokens-per-second display
\* (the streamed `update` events only feed that display, see SpecMetrics).
OrchestrationTexts == { Hello, BLANK_AUDIO }
OrchestrationSizes == { 0, MAX_SAMPLES }

Next ==
    \/ LoadModel
    \/ toggleRecording(MaxSessions)
    \/ clearTranscript
    \/ onMessageReceived
    \/ RecorderEvent(OrchestrationSizes)
    \/ RequestTimer
    \/ Decoder(BOOLEAN)
    \/ Gate
    \/ Engine(OrchestrationTexts)
    \/ EngineThrows
    \/ Loader(BOOLEAN)

Spec == Init /\ [][Next]_vars

\* The worker alone, driven by an arbitrary client.
GateTexts == { Hello }

NextGate ==
    \/ ClientPost
    \/ ClientReceive
    \/ Gate
    \/ Engine(GateTexts)
    \/ EngineThrows
    \/ Loader(BOOLEAN)

SpecGate == Init /\ [][NextGate]_vars

\* The commits of the transcript: every text the engine may return, no
\* failures.
NextCommit ==
    \/ LoadModel
    \/ toggleRecording(MaxSessions)
    \/ clearTranscript
    \/ onMessageReceived
    \/ RecorderEvent({MAX_SAMPLES})
    \/ RequestTimer
    \/ Decoder({TRUE})
    \/ Gate
    \/ Engine(EngineTexts)
    \/ Loader({TRUE})

SpecCommit == Init /\ [][NextCommit]_vars

\* The window of the Realtime requests: sessions shorter than, equal to and
\* longer than MAX_SAMPLES, no failures.
NextWindow ==
    \/ LoadModel
    \/ toggleRecording(1)
    \/ onMessageReceived
    \/ RecorderEvent({0} \cup FragmentSamples)
    \/ RequestTimer
    \/ Decoder({TRUE})
    \/ Gate
    \/ Engine(GateTexts)
    \/ Loader({TRUE})

SpecWindow == Init /\ [][NextWindow]_vars

\* The tokens-per-second display: the streamed updates and the debounce
\* timer, no failures.
NextMetrics ==
    \/ LoadModel
    \/ toggleRecording(1)
    \/ onMessageReceived
    \/ RecorderEvent({MAX_SAMPLES})
    \/ RequestTimer
    \/ Decoder({TRUE})
    \/ Gate
    \/ Engine(GateTexts)
    \/ Streamer
    \/ Loader({TRUE})
    \/ Tick
    \/ DebounceTimeout

SpecMetrics == Init /\ [][NextMetrics]_vars

\* The load of the model: its progress reports, success and failure.
NextLoad ==
    \/ LoadModel
    \/ onMessageReceived
    \/ Gate
    \/ ProgressCallback
    \/ Loader(BOOLEAN)

SpecLoad == Init /\ [][NextLoad]_vars

\* The committed transcript under the user's edits.
NextEdit ==
    \/ LoadModel
    \/ toggleRecording(MaxSessions)
    \/ clearTranscript
    \/ (\E value \in EditTexts : onChange(value))
    \/ onMessageReceived
    \/ RecorderEvent({MAX_SAMPLES})
    \/ RequestTimer
    \/ Decoder({TRUE})
    \/ Gate
    \/ Engine(OrchestrationTexts)
    \/ Loader({TRUE})

SpecEdit == Init /\ [][NextEdit]_vars

(***************************************************************************)
(* Properties of the single-flight gate.                                   *)
(***************************************************************************)
\* The invocations of generate() between `processing = true` and the end of
\* the engine call.
InFlight ==
    {i \in 1..Len(calls) :
        calls[i].kind = "generate" /\ calls[i].pc \in {"instance", "run"}}

Polling == {i \in 1..Len(calls) : calls[i].pc = "poll"}

\* The step posts an event of the given kind.
Posts(kind) ==
    /\ Len(toMain') = Len(toMain) + 1
    /\ toMain'[Len(toMain')].status = kind

\* The worker's listener takes a generate message of the given finality.
Receives(isFinal) ==
    /\ toWorker # <<>>
    /\ toWorker' = Tail(toWorker)
    /\ Head(toWorker).type = "generate"
    /\ Head(toWorker).isFinal = isFinal

\* C1. Single-flight: at most one invocation of generate() is between
\* `processing = true` and `processing = false`, whatever generate messages
\* arrive and however many Final requests wait in the poll loop; `start` is
\* posted only when the gate is clear, so never a second time before the
\* admitted request has ended.
C1_SingleFlight ==
    /\ [](Cardinality(InFlight) <= 1 /\ (InFlight # {} => processing))
    /\ [][Posts("start") => (~processing /\ processing' /\ InFlight = {})]_vars

\* C1 witness: one request is in flight while two Final requests wait.
C1_TwoFinalsWaiting ==
    /\ Cardinality(InFlight) = 1
    /\ Cardinality(Polling) = 2
    /\ \A i \in Polling : calls[i].isFinal

\* C2. Every Final request that leaves the worker has produced a `complete`
\* event with isFinal = true (it is never dropped silently).
C2_FinalNeverDropped ==
    [][\A i \in 1..Len(calls) :
         (/\ calls[i].kind = "generate"
          /\ calls[i].isFinal
          /\ calls' = RemoveAt(calls, i))
         => (/\ Posts("complete")
             /\ toMain'[Len(toMain')].isFinal)]_vars

\* C3. A Realtime request that reaches the worker while the gate is busy is
\* discarded: no event is posted, the busy flag, the pending invocations and
\* every piece of the orchestrator's state (live transcript, flags) stay as
\* they are.
C3_RealtimeDiscarded ==
    [][(Receives(FALSE) /\ processing)
         => UNCHANGED <<toMain, workerVars, appVars>>]_vars

\* C3 witness: a Realtime request posted by the App has been discarded.
C3_Discarded ==
    /\ "dropped" \in history
    /\ session > 0

\* C4. When an admitted request finishes, by success or by an exception of
\* the engine, the busy flag is clear afterwards.
C4_GateClearedAtEnd ==
    [][\A i \in 1..Len(calls) :
         (/\ calls[i].kind = "generate"
          /\ calls[i].pc = "run"
          /\ calls' = RemoveAt(calls, i))
         => ~processing']_vars

\* C8. Load idempotence: no underlying load of a component (from_pretrained,
\* pipeline) is started while one of that component is still pending.
LoadPending(comp) ==
    CASE comp = "tokenizer" -> tokenizer = "pending"
      [] comp = "processor" -> processor = "pending"
      [] comp = "model" -> model = "pending"
      [] OTHER -> \E i \in 1..Len(calls) : calls[i].pc = "instance"

C8_LoadOnce ==
    [][\A comp \in DOMAIN loadCalls :
         loadCalls'[comp] > loadCalls[comp] => ~LoadPending(comp)]_vars

(***************************************************************************)
(* Properties of the orchestrator.                                         *)
(***************************************************************************)
\* The App handles the event at the head of its queue.
Handles(kind) ==
    /\ toMain # <<>>
    /\ toMain' = Tail(toMain)
    /\ Head(toMain).status = kind
    /\ session > 0

HandlesFinalComplete == Handles("complete") /\ Head(toMain).isFinal

\* The recorder's `stop` event is dispatched.
HandlesStop ==
    /\ recorderEvents # <<>>
    /\ Head(recorderEvents) = "stop"
    /\ recorderEvents' = Tail(recorderEvents)

HelloWorld == Hello \o Sp \o World
Padded == <<" ", " ">> \o BLANK_AUDIO \o Sp \o HelloWorld \o <<" ", " ">>

\* What the cleaning must give for each text of EngineTexts.
Cleaned(output) ==
    CASE output = Padded -> HelloWorld
      [] output = BLANK_AUDIO -> Empty
      [] OTHER -> output

EndsWith(s, t) ==
    /\ Len(t) <= Len(s)
    /\ SubSeq(s, Len(s) - Len(t) + 1, Len(s)) = t

\* C5. Commit semantics: handling a `complete` with isFinal = true leaves the
\* committed transcript as old + (" " if old is non-empty) + cleaned when
\* cleaned (the output without its [BLANK_AUDIO] markers, trimmed) is
\* non-empty, and unchanged when cleaned is empty; "" and
\* "  [BLANK_AUDIO] hello world  " give "hello world", "hello" and "world"
\* give "hello world".
C5_CommitSemantics ==
    [][HandlesFinalComplete =>
         LET old == finalTranscript
             cleaned == Cleaned(Head(toMain).output)
         IN  /\ Head(toMain).output \in EngineTexts
             /\ finalTranscript' =
                  IF cleaned = Empty THEN old
                  ELSE IF old = Empty THEN cleaned
                  ELSE old \o <<" ">> \o cleaned
             /\ (old = Empty /\ Head(toMain).output = Padded)
                  => finalTranscript' = HelloWorld
             /\ (old = Hello /\ Head(toMain).output = World)
                  => finalTranscript' = HelloWorld]_vars

\* C5 witness: the second session has committed "world" after "hello world".
C5_Committed ==
    /\ session = 2
    /\ "committed" \in history
    /\ finalTranscript = HelloWorld \o Sp \o World

\* C6. End to end: a Final request is admitted only when nothing is in
\* flight (the Realtime computation ahead of it has resolved), and when the
\* Final `complete` is handled the live transcript is empty, the Finalizing
\* and processing flags are clear and the committed transcript ends with the
\* cleaned Final text.
C6_EndToEnd ==
    /\ [][(\E i \in InFlight' : calls'[i].isFinal /\ Posts("start"))
            => (InFlight = {} /\ ~processing)]_vars
    /\ [][HandlesFinalComplete =>
            /\ realtimeText' = Empty
            /\ ~processingFinalTranscript'
            /\ ~isProcessing'
            /\ EndsWith(finalTranscript', Cleaned(Head(toMain).output))]_vars

\* C6 witness: in one session a Realtime request was discarded, the Final
\* request waited for the gate, and its text has been committed.
C6_ScenarioDone ==
    /\ session = 1
    /\ history = {"dropped", "waited", "committed"}
    /\ realtimeText = Empty
    /\ finalTranscript = Hello
    /\ ~processingFinalTranscript
    /\ ~isProcessing
    /\ ~recording

\* The fragments of the Final reads and Final requests under way.
FinalFragments ==
    {readers[i].frags : i \in {j \in 1..Len(readers) : readers[j].isFinal}}
    \cup {toWorker[i].audio.frags :
            i \in {j \in 1..Len(toWorker) :
                     toWorker[j].type = "generate" /\ toWorker[j].isFinal}}

\* C7. A stop with no non-empty fragment captured starts no Final read and
\* posts nothing, leaves processingFinalTranscript clear, ends the recording
\* and keeps the committed transcript; every Final read or request carries
\* at least one fragment.
C7_StopWithoutFragments ==
    /\ [][(HandlesStop /\ fullRecordingRef = <<>>) =>
            /\ ~processingFinalTranscript'
            /\ ~recording'
            /\ readers' = readers
            /\ UNCHANGED <<toWorker, finalTranscript, status>>]_vars
    /\ [](\A frags \in FinalFragments : frags # <<>>)

\* C7 witness: the second session was stopped with nothing captured, after
\* the first one committed "hello".
C7_StoppedEmpty ==
    /\ session = 2
    /\ recorderState = "inactive"
    /\ recorderEvents = <<>>
    /\ fullRecordingRef = <<>>
    /\ ~recording
    /\ ~allowRealtimeProcessing
    /\ ~processingFinalTranscript
    /\ finalTranscript = Hello
    /\ status = "ready"

\* The Realtime requests on their way to the worker.
RealtimeRequests ==
    {toWorker[i] : i \in {j \in 1..Len(toWorker) :
                            toWorker[j].type = "generate" /\ ~toWorker[j].isFinal}}

\* C9. Windowing: the audio of a Realtime request is the last
\* min(L, MAX_SAMPLES) samples of the decode of its fragments, L samples
\* long: the whole decode when L <= MAX_SAMPLES.
C9_Window ==
    \A m \in RealtimeRequests :
        LET L == Samples(m.audio.frags) IN
        /\ m.audio.len = (IF L > MAX_SAMPLES THEN MAX_SAMPLES ELSE L)
        /\ m.audio.off + m.audio.len = L
        /\ L <= MAX_SAMPLES => m.audio.off = 0

\* C9 witness: a Realtime request of a session longer than MAX_SAMPLES.
C9_Truncated ==
    \E m \in RealtimeRequests :
        /\ Samples(m.audio.frags) > MAX_SAMPLES
        /\ m.audio.off > 0

\* C10. Every raw tokens-per-second update leaves a smoothed update pending:
\* a burst of k >= 1 raw updates causes exactly one update of debouncedTps.
C10_EveryBurstUpdatesOnce ==
    [][Handles("update") => tpsTimer'.armed]_vars

\* C10 (amended). A raw update that changes tps restarts the 200 ms timer, a
\* raw update that repeats tps starts nothing; debouncedTps is written only
\* when the timer has run its 200 ms, with the latest raw value; when no
\* timer is pending debouncedTps equals tps.
C10_Debounce ==
    /\ [][Handles("update") =>
            IF Head(toMain).tps # tps
            THEN tpsTimer' = [armed |-> TRUE, value |-> Head(toMain).tps,
                              left |-> 200]
            ELSE UNCHANGED <<tpsTimer, debouncedTps>>]_vars
    /\ [][debouncedTps' # debouncedTps =>
            /\ tpsTimer.armed
            /\ tpsTimer.left = 0
            /\ ~tpsTimer'.armed
            /\ debouncedTps' = tps]_vars
    /\ [](~tpsTimer.armed => debouncedTps = tps)

\* C10 witness: the request in flight has streamed two raw updates, both
\* are handled and the timer has fired with the second value.
C10_Smoothed ==
    /\ \E i \in InFlight : calls[i].numTokens = 2 /\ calls[i].tps = "25.0"
    /\ toMain = <<>>
    /\ ~tpsTimer.armed
    /\ debouncedTps = "25.0"
    /\ tps = "25.0"

(***************************************************************************)
(* Properties of stop-capture, failures and the displays.                  *)
(***************************************************************************)
\* The step posts a generate message of the given finality to the worker.
Submits(isFinal) ==
    /\ Len(toWorker') = Len(toWorker) + 1
    /\ toWorker'[Len(toWorker')].type = "generate"
    /\ toWorker'[Len(toWorker')].isFinal = isFinal

\* C11. Stale events are discarded: a Realtime `complete` handled after
\* stop-capture (while not recording) leaves the live transcript as it is,
\* so realtimeText is empty whenever the App is not recording.
C11_StaleEventsDiscarded ==
    /\ [][(Handles("complete") /\ ~Head(toMain).isFinal /\ ~recording)
            => realtimeText' = realtimeText]_vars
    /\ [](~recording => realtimeText = Empty)

\* C12. Once stop-capture has been handled, no Realtime generate request is
\* posted to the worker until the next start-capture: a Realtime request is
\* posted only while recording.
C12_StopCancelsRealtime ==
    [][Submits(FALSE) => (recording /\ allowRealtimeProcessing)]_vars

\* C13. An `error` event of load() takes the App out of `loading` and back
\* to the state that offers the load command (status === null).
C13_LoadRetryable ==
    [][(toMain # <<>> /\ toMain' = Tail(toMain) /\ Head(toMain).status = "error")
         => (status' # "loading" /\ status' = Null)]_vars

\* What can still clear the App's in-flight flags: a request on its way to
\* or in the worker, or a `complete` on its way back.
CompletionComing(isFinal) ==
    \/ \E i \in 1..Len(readers) : readers[i].isFinal = isFinal
    \/ \E i \in 1..Len(toWorker) :
         toWorker[i].type = "generate" /\ toWorker[i].isFinal = isFinal
    \/ \E i \in 1..Len(calls) :
         calls[i].kind = "generate" /\ calls[i].isFinal = isFinal
    \/ \E i \in 1..Len(toMain) :
         toMain[i].status = "complete" /\ toMain[i].isFinal = isFinal

\* C14. The in-flight flags are cleared when a request fails in the engine:
\* processingFinalTranscript is set only while the Final request or its
\* `complete` is still under way, and isProcessing only while some request
\* or `complete` is.
C14_FlagsClearedOnFailure ==
    /\ processingFinalTranscript => CompletionComing(TRUE)
    /\ isProcessing => (CompletionComing(TRUE) \/ CompletionComing(FALSE))

\* C15. The failure of a Final request is surfaced: the step in which its
\* engine call throws posts an event, and that step differs from the one of
\* a Final request that succeeds with a text that cleans to empty.
C15_FinalFailureSurfaced ==
    [][\A i \in 1..Len(calls) :
         (calls[i].kind = "generate" /\ calls[i].isFinal /\ Throw(i))
         => (/\ Len(toMain') = Len(toMain) + 1
             /\ ~Complete(i, {Empty, BLANK_AUDIO}))]_vars

\* The App takes the event at the head of its queue.
Receive ==
    /\ toMain # <<>>
    /\ toMain' = Tail(toMain)

\* A step of the user on the textarea (edit or Clear): nothing but the
\* committed transcript changes.
UserEdit ==
    /\ finalTranscript' # finalTranscript
    /\ UNCHANGED <<workerVars, chanVars, status, realtimeText, recording,
                   isProcessing, chunks, fullRecordingRef,
                   allowRealtimeProcessing, processingFinalTranscript,
                   recorderState, recorderEvents, requestTimers, readers,
                   session, progressItems>>

IsPrefix(s, t) ==
    /\ Len(s) <= Len(t)
    /\ SubSeq(t, 1, Len(s)) = s

\* C16. The committed transcript is append-only except for the user's edit
\* and Clear: every other step leaves the old transcript as a prefix of the
\* new one, and every event but a Final `complete`, every recorder event and
\* the start and stop commands leave it unchanged.
C16_AppendOnly ==
    /\ [][~UserEdit => IsPrefix(finalTranscript, finalTranscript')]_vars
    /\ [][((Receive /\ ~(Head(toMain).status = "complete" /\ Head(toMain).isFinal))
            \/ recorderEvents' # recorderEvents
            \/ toWorker' # toWorker)
           => finalTranscript' = finalTranscript]_vars

\* C16 witness: the user left "world" in the textarea and the second
\* session appended "hello" to it.
C16_AppendedAfterEdit ==
    /\ session = 2
    /\ "committed" \in history
    /\ finalTranscript = World \o Sp \o Hello

\* C17. While recording, an `update` event overwrites the live transcript
\* with the event's text.
C17_UpdateOverwritesLive ==
    [][(Handles("update") /\ recording)
         => realtimeText' = Head(toMain).output]_vars

\* The files that have an entry in the progress list.
ListedFiles == {progressItems[i].file : i \in 1..Len(progressItems)}

\* C18. The progress list is a live snapshot: `initiate` for f gives f an
\* entry, `done` for f leaves no entry for f, and every other event
\* (`progress` included, also for a file without an entry) neither adds nor
\* removes an entry; so f is listed iff an `initiate` for f was received
\* with no later `done` for f.
C18_ProgressSnapshot ==
    [][Receive =>
         LET e == Head(toMain) IN
         CASE e.status = "initiate" ->
                /\ ListedFiles' = ListedFiles \cup {e.file}
                /\ Len(progressItems') = Len(progressItems) + 1
           [] e.status = "done" ->
                /\ ListedFiles' = ListedFiles \ {e.file}
                /\ \A i \in 1..Len(progressItems') :
                     \E j \in 1..Len(progressItems) :
                        progressItems'[i] = progressItems[j]
           [] OTHER ->
                /\ ListedFiles' = ListedFiles
                /\ Len(progressItems') = Len(progressItems)]_vars

\* C18 witness: of two files initiated, one is done and the other has
\* reported 100 %.
C18_OneFileLeft ==
    /\ status = "loading"
    /\ Len(progressItems) = 1
    /\ progressItems[1].status = "progress"
    /\ progressItems[1].progress = 100
    /\ \E i \in 1..Len(toMain) : toMain[i].status = "progress"
                                  /\ toMain[i].file \notin ListedFiles

\* C19. A Final request waiting at the gate is the next request admitted:
\* no Realtime request is admitted while a Final request waits.
C19_FinalAdmittedNext ==
    [][(Posts("start") /\ \E i \in InFlight' : ~calls'[i].isFinal)
         => Polling = {}]_vars

\* A generate message posted earlier is not yet resolved: it is on its way
\* to the worker, in the worker, or its `complete` is on its way back.
Outstanding ==
    \/ \E i \in 1..Len(toWorker) : toWorker[i].type = "generate"
    \/ \E i \in 1..Len(calls) : calls[i].kind = "generate"
    \/ \E i \in 1..Len(toMain) : toMain[i].status = "complete"

\* C20. The App posts a Realtime generate message only when no generate
\* message posted earlier is outstanding.
C20_OneRealtimeOutstanding ==
    [][Submits(FALSE) => ~Outstanding]_vars

(***************************************************************************)
(* Properties of recovery, the buffers and the two busy flags.             *)
(***************************************************************************)
\* Something is under way that leads to the next Realtime submission: a
\* read or decode, a recorder event or data-request timer, a message in
\* transit, or a request in the worker whose events are still to come.
RealtimeUnderWay ==
    \/ readers # <<>>
    \/ recorderEvents # <<>>
    \/ requestTimers > 0
    \/ toWorker # <<>>
    \/ toMain # <<>>
    \/ \E i \in 1..Len(calls) : calls[i].kind = "generate"

\* C21. A failed Realtime attempt never halts the state machine: while the
\* App is recording with the engine ready, something is always under way
\* that leads to the next Realtime submission.
C21_NeverHalts ==
    (recording /\ recorderState = "recording" /\ status = "ready")
        => RealtimeUnderWay

\* C22. Load-progress events do not change the orchestrator's state:
\* handling `initiate`, `progress` or `done` leaves the status, the
\* recording and processing flags and both transcripts unchanged, and the
\* status becomes "ready" only by handling a `ready` event.
C22_ProgressFrame ==
    /\ [][(Receive /\ Head(toMain).status \in {"initiate", "progress", "done"})
            => UNCHANGED <<status, recording, isProcessing,
                           allowRealtimeProcessing, processingFinalTranscript,
                           realtimeText, finalTranscript>>]_vars
    /\ [][(status' = "ready" /\ status # "ready")
            => (Receive /\ Head(toMain).status = "ready")]_vars

\* C22 witness: the model is ready while the list still shows a file that
\* was initiated and reported progress.
C22_ReadyAfterProgress ==
    /\ status = "ready"
    /\ toMain = <<>>
    /\ \E i \in 1..Len(progressItems) : progressItems[i].status = "progress"

\* The recorder's `start` event is dispatched.
HandlesStart ==
    /\ recorderEvents # <<>>
    /\ Head(recorderEvents) = "start"
    /\ Len(recorderEvents') >= Len(recorderEvents) - 1
    /\ recording'

\* The fragments are those of one session, all non-empty, numbered in the
\* order of their arrival from the first one on.
SessionFragments(frags, s) ==
    \A i \in 1..Len(frags) :
        /\ frags[i].session = s
        /\ frags[i].seq = i
        /\ frags[i].samples > 0

\* The session whose `start` event has been dispatched last: between the
\* recorder's start() and its `start` event the buffers are still those of
\* the session before.
CapturedSession ==
    IF \E i \in 1..Len(recorderEvents) : recorderEvents[i] = "start"
    THEN session - 1
    ELSE session

\* C23. No audio is lost or carried over: start-capture empties both
\* buffers, which then hold only fragments of the current session in
\* arrival order; the Final read started at stop-capture takes the whole
\* full-session buffer, and a Final request carries the whole decode of its
\* fragments, not truncated to the streaming window.
C23_SessionAudio ==
    /\ [][HandlesStart => (chunks' = <<>> /\ fullRecordingRef' = <<>>)]_vars
    /\ [](/\ SessionFragments(fullRecordingRef, CapturedSession)
          /\ SessionFragments(chunks, CapturedSession))
    /\ [][(HandlesStop /\ fullRecordingRef # <<>>)
            => /\ Len(readers') = Len(readers) + 1
               /\ readers'[Len(readers')].isFinal
               /\ readers'[Len(readers')].frags = fullRecordingRef]_vars
    /\ [](\A frags \in FinalFragments : SessionFragments(frags, frags[1].session))
    /\ [](\A i \in 1..Len(toWorker) :
            (toWorker[i].type = "generate" /\ toWorker[i].isFinal)
            => /\ toWorker[i].audio.off = 0
               /\ toWorker[i].audio.len = Samples(toWorker[i].audio.frags))

\* C23 witness: the Final request of the second session carries its two
\* fragments, 60 s of audio, whole.
C23_SecondSessionWhole ==
    /\ session = 2
    /\ \E i \in 1..Len(toWorker) :
         /\ toWorker[i].isFinal
         /\ Len(toWorker[i].audio.frags) = 2
         /\ toWorker[i].audio.frags[1].session = 2
         /\ toWorker[i].audio.len = 2 * MAX_SAMPLES

\* The recorder's `dataavailable` event is dispatched.
HandlesData ==
    /\ recorderEvents # <<>>
    /\ Head(recorderEvents) = "dataavailable"
    /\ RecorderEvent(OrchestrationSizes)

\* The fragment is appended to both buffers and no retry timer is set.
TakesFragment ==
    \E n \in FragmentSamples :
       LET data == Fragment(session, Len(fullRecordingRef) + 1, n) IN
       /\ chunks' = Append(chunks, data)
       /\ fullRecordingRef' = Append(fullRecordingRef, data)
       /\ requestTimers' = requestTimers

\* Nothing is appended, the event asks for nothing, a retry timer is set.
AsksAgainLater ==
    /\ chunks' = chunks
    /\ fullRecordingRef' = fullRecordingRef
    /\ recorderEvents' = Tail(recorderEvents)
    /\ requestTimers' = requestTimers + 1

\* C24. An empty fragment is "no data yet": handling a fragment either
\* appends a non-empty one to both buffers or appends nothing and sets the
\* retry timer, so neither buffer ever holds an empty fragment; a timer that
\* fires requests data exactly when the recorder is still recording.
C24_EmptyFragment ==
    /\ [][HandlesData => (TakesFragment \/ AsksAgainLater)]_vars
    /\ [](\A i \in 1..Len(chunks) : chunks[i].samples > 0)
    /\ [](\A i \in 1..Len(fullRecordingRef) : fullRecordingRef[i].samples > 0)
    /\ [][RequestTimer
            => recorderEvents' = IF recorderState = "recording"
                                 THEN Append(recorderEvents, "dataavailable")
                                 ELSE recorderEvents]_vars

\* C24 witness: the session got only empty fragments, the last one at
\* stop-capture, whose retry timer is pending on an inactive recorder.
C24_RetryAfterStop ==
    /\ session > 0
    /\ recorderState = "inactive"
    /\ ~recording
    /\ recorderEvents = <<>>
    /\ fullRecordingRef = <<>>
    /\ chunks = <<>>
    /\ requestTimers = 1

\* The decode of the full session, started at stop-capture, throws.
FinalDecodeFails ==
    \E i \in 1..Len(readers) : readers[i].isFinal /\ onloadend(i, FALSE)

\* C25. When the decode of the full session fails, no Final generate is
\* posted, processingFinalTranscript is cleared, the committed transcript is
\* left alone and the App is back in Ready: loaded, not recording, the
\* recorder inactive and the record button enabled.
C25_FinalDecodeFailure ==
    [][FinalDecodeFails
         => /\ toWorker' = toWorker
            /\ ~processingFinalTranscript'
            /\ finalTranscript' = finalTranscript
            /\ status' = "ready"
            /\ ~recording'
            /\ recorderState' = "inactive"]_vars

\* C25 witness: a session that captured audio is over, nothing was committed
\* and no Final request is under way, yet the Finalizing flag is down.
C25_BackInReady ==
    /\ session > 0
    /\ status = "ready"
    /\ ~recording
    /\ recorderState = "inactive"
    /\ recorderEvents = <<>>
    /\ fullRecordingRef # <<>>
    /\ ~processingFinalTranscript
    /\ ~CompletionComing(TRUE)
    /\ "committed" \notin history

\* The generate call i ends, with a result or with an exception.
Ends(i) ==
    /\ calls[i].kind = "generate"
    /\ Complete(i, OrchestrationTexts) \/ Throw(i)

\* C26. Every `complete` carries the finality of its request: the call made
\* for a generate message has the message's isFinal, and the `complete`
\* posted when the call ends, on the success path and on the error path,
\* has the call's. Of the worker's events only a Final `complete` changes
\* the committed transcript, and apart from the user's own edit or Clear
\* nothing else does; a Realtime `complete` leaves it as it is.
C26_FinalityCarried ==
    /\ [][(Receives(TRUE) \/ Receives(FALSE))
            => \/ calls' = calls
               \/ /\ Len(calls') = Len(calls) + 1
                  /\ calls'[Len(calls')].isFinal = Head(toWorker).isFinal]_vars
    /\ [][\A i \in 1..Len(calls) :
            (Ends(i) /\ Posts("complete"))
            => toMain'[Len(toMain')].isFinal = calls[i].isFinal]_vars
    /\ [][(finalTranscript' # finalTranscript /\ ~UserEdit)
            => /\ Receive
               /\ Head(toMain).status = "complete"
               /\ Head(toMain).isFinal]_vars
    /\ [][(Receive /\ Head(toMain).status = "complete" /\ ~Head(toMain).isFinal)
            => finalTranscript' = finalTranscript]_vars

\* C26 witness: the first session committed "hello"; in the second one a
\* Realtime `complete` brought "hello" again, which shows as live text only.
C26_RealtimeNotCommitted ==
    /\ session = 2
    /\ recording
    /\ "committed" \notin history
    /\ finalTranscript = Hello
    /\ realtimeText = Hello

\* The Final requests outstanding: read or decode started, generate posted
\* or running, or `complete` not yet handled.
FinalReads == {i \in 1..Len(readers) : readers[i].isFinal}
FinalPosted ==
    {i \in 1..Len(toWorker) : toWorker[i].type = "generate" /\ toWorker[i].isFinal}
FinalCalls ==
    {i \in 1..Len(calls) : calls[i].kind = "generate" /\ calls[i].isFinal}
FinalCompletes ==
    {i \in 1..Len(toMain) : toMain[i].status = "complete" /\ toMain[i].isFinal}
FinalOutstanding ==
    Cardinality(FinalReads) + Cardinality(FinalPosted)
        + Cardinality(FinalCalls) + Cardinality(FinalCompletes)

\* C27. No second concurrent Final request: a recording is started only
\* while processingFinalTranscript is down, the flag is up while a Final
\* request is outstanding, and at most one is outstanding at any instant.
C27_OneFinalOutstanding ==
    /\ [][session' # session => ~processingFinalTranscript]_vars
    /\ [](FinalOutstanding > 0 => processingFinalTranscript)
    /\ [](FinalOutstanding <= 1)

\* C27 witness: the Final request of a second session is outstanding, the
\* one of the first session having been committed before it started.
C27_SecondFinal ==
    /\ session = 2
    /\ finalTranscript = Hello
    /\ processingFinalTranscript
    /\ FinalOutstanding = 1

\* C28. The App's busy flag mirrors the worker's gate: when no message is
\* in transit in either direction, isProcessing is true exactly when the
\* worker's `processing` is.
C28_BusyMirrorsGate ==
    (toWorker = <<>> /\ toMain = <<>>) => (isProcessing = processing)

\* C28 witness: a request is running in the engine during a recording, its
\* `start` was handled and nothing is in transit.
C28_BusyWhileRunning ==
    /\ toWorker = <<>>
    /\ toMain = <<>>
    /\ recording
    /\ isProcessing
    /\ processing
    /\ \E i \in 1..Len(calls) : calls[i].kind = "generate" /\ calls[i].pc = "run"

\* C29. The progress list is a mapping keyed by file: it never holds two
\* entries for the same file identifier.
C29_OneEntryPerFile ==
    \A i, j \in 1..Len(progressItems) :
        i # j => progressItems[i].file # progressItems[j].file
=============================================================================
